---------------------------- MODULE Spec2Model ----------------------------
(***************************************************************************)
(* FinGenius: the data-provider selector (src/tool/data_provider) and the  *)
(* research orchestrator (src/environment/research.py).                    *)
(*                                                                         *)
(* Six specifications share the definitions below:                         *)
(*   SpecSelector  repeated calls of get_data_provider() in one process,   *)
(*                 the configuration and the backends' health read anew at *)
(*                 every call;                                             *)
(*   SpecProvider  one operation of one of the three providers, applied to *)
(*                 arguments and remote answers drawn by the initial       *)
(*                 state;                                                  *)
(*   Spec          one call of ResearchEnvironment.run(stock_code) on an   *)
(*                 initialized environment, its specialist tasks           *)
(*                 interleaved in every order the event loop allows;       *)
(*   SpecLive      that call with all six specialists registered, under a  *)
(*                 fair event loop;                                        *)
(*   SpecAgain     that call on an environment whose `results` may hold    *)
(*                 the aggregate of an earlier run;                        *)
(*   SpecCleanup   one call of ResearchEnvironment.cleanup().              *)
(***************************************************************************)
EXTENDS Integers, Sequences, FiniteSets, TLC

VARIABLES
    provider_instance,  \* data_provider/__init__.py: the global _provider_instance
    call,               \* the last direct call of get_data_provider: inputs and effects
    ncalls,             \* calls of get_data_provider so far in this process
    agents,             \* ResearchEnvironment.agents: the registered agent keys
    hasMemory,          \* the agents the seeding loop found to have a `memory` attribute
    memory,             \* per agent, the number of messages added to its memory
    pc,                 \* position of run()
    stock_code,         \* run's argument
    basic_info_result,  \* run's local: the StockInfoResponse of the fetch
    task,               \* per agent, the state of its run_with_semaphore task
    task_result,        \* per agent, how agent.run ended
    sem,                \* asyncio.Semaphore(3): the free slots (_value)
    results,            \* run's local dict `results`
    env_results,        \* ResearchEnvironment.results
    ret,                \* what run() gave its caller
    started,            \* per agent, the number of times agent.run was entered
    request,            \* a provider operation: backend, method, arguments, remote answers
    fetched,            \* what that operation did: remote calls made, how it ended
    cleanup_pc,         \* position of cleanup()
    hasCleanup,         \* the agents cleanup() found to have a `cleanup` attribute
    cleanup_task,       \* per agent, the state of its agent.cleanup() task
    cleanup_started,    \* per agent, the number of times agent.cleanup() was started
    released            \* super().cleanup() has been awaited

selVars == <<provider_instance, call, ncalls>>
runVars == <<agents, hasMemory, memory, pc, stock_code, basic_info_result,
             task, task_result, sem, results, env_results, ret, started>>
provVars == <<request, fetched>>
cleanVars == <<cleanup_pc, hasCleanup, cleanup_task, cleanup_started, released>>
vars == <<provider_instance, call, ncalls, agents, hasMemory, memory, pc,
          stock_code, basic_info_result, task, task_result, sem, results,
          env_results, ret, started, request, fetched, cleanup_pc,
          hasCleanup, cleanup_task, cleanup_started, released>>

-----------------------------------------------------------------------------
(* Bounds of the model *)

\* direct calls of get_data_provider explored by SpecSelector
MaxCalls == 2
\* registered specialists that lack a `memory` attribute
MaxNoMemory == 1
\* characters of the longest canonical code given to a provider
MaxCodeLen == 2

-----------------------------------------------------------------------------
(* The provider selector: src/tool/data_provider/__init__.py *)

Backends == {"tushare", "rqdata", "akshare"}

\* Python's None, as a provider value
None == [backend |-> "None", serial |-> 0]

\* the provider object of a backend constructed by the n-th call of the selector
Instance(b, n) == [backend |-> b, serial |-> n]

\* config.get("data_provider_config").provider
Modes == {"auto", "tushare", "rqdata", "akshare", "wind"}
\* tushare_token: unset, the placeholder, a real token
Tokens == {"", "invalid_token", "tk"}
\* rqdata_username, rqdata_password: unset or set
Usernames == {"", "user"}
Passwords == {"", "pw"}

Configs == [provider : Modes, tushare_token : Tokens,
            rqdata_username : Usernames, rqdata_password : Passwords]

\* what the backends answer when probed: TRUE is success, FALSE an exception
Healths == [pro_api : BOOLEAN, trade_cal : BOOLEAN, rq_init : BOOLEAN]

\* truth value of a configuration string: None and "" are false
Truthy(s) == s # ""

\* the result of a try_* helper: the provider (or None), the constructors it
\* called and the remote calls it made, in order
Tried(p, c, r) == [provider |-> p, ctor |-> c, remote |-> r]

\* try_tushare's test of the configured token
TokenUsable(token) == Truthy(token) /\ token # "invalid_token"

\* try_tushare() returning the constructed provider without the probe's
\* verdict
try_tushare_unprobed(cfg, h, n) ==
    IF TokenUsable(cfg.tushare_token)
    THEN IF h.pro_api
         THEN Tried(Instance("tushare", n), <<"tushare">>, <<"trade_cal">>)
         ELSE Tried(None, <<"tushare">>, <<>>)
    ELSE Tried(None, <<>>, <<>>)

\* try_tushare(): n is the serial the object gets if it is constructed
try_tushare(cfg, h, n) ==
    IF TokenUsable(cfg.tushare_token)
    THEN IF h.pro_api
         THEN IF h.trade_cal
              THEN Tried(Instance("tushare", n), <<"tushare">>, <<"trade_cal">>)
              ELSE Tried(None, <<"tushare">>, <<"trade_cal">>)
         ELSE Tried(None, <<"tushare">>, <<>>)
    ELSE Tried(None, <<>>, <<>>)

\* try_rqdata(): the constructor calls rqdatac.init, which is the probe
try_rqdata(cfg, h, n) ==
    IF Truthy(cfg.rqdata_username) /\ Truthy(cfg.rqdata_password)
    THEN IF h.rq_init
         THEN Tried(Instance("rqdata", n), <<"rqdata">>, <<"rqdatac.init">>)
         ELSE Tried(None, <<"rqdata">>, <<"rqdatac.init">>)
    ELSE Tried(None, <<>>, <<>>)

\* try_akshare(): AkshareProvider() has no constructor body
try_akshare(cfg, h, n) == Tried(Instance("akshare", n), <<"akshare">>, <<>>)

\* Python's `a or b`, b evaluated only when a is None; both are Tried records
OrElse(a, b) ==
    IF a.provider # None THEN a
    ELSE Tried(b.provider, a.ctor \o b.ctor, a.remote \o b.remote)

\* the auto chain in the wrong order: akshare asked first
AutoChainAkshareFirst(cfg, h, n) ==
    OrElse(try_akshare(cfg, h, n),
           OrElse(try_tushare(cfg, h, n), try_rqdata(cfg, h, n)))

\* try_tushare() or try_rqdata() or try_akshare()
AutoChain(cfg, h, n) ==
    OrElse(try_tushare(cfg, h, n),
           OrElse(try_rqdata(cfg, h, n), try_akshare(cfg, h, n)))

\* the chain with an explicit mode falling back to the other backends
ByModeWithFallback(cfg, h, n) ==
    CASE cfg.provider = "tushare" ->
             OrElse(try_tushare(cfg, h, n),
                    OrElse(try_rqdata(cfg, h, n), try_akshare(cfg, h, n)))
      [] cfg.provider = "rqdata" ->
             OrElse(try_rqdata(cfg, h, n), try_akshare(cfg, h, n))
      [] cfg.provider \in {"auto", "akshare"} -> AutoChain(cfg, h, n)
      [] OTHER -> Tried(None, <<>>, <<>>)

\* the if/elif chain on provider_name; "ValueError" is the else branch
ByMode(cfg, h, n) ==
    CASE cfg.provider = "auto"    -> AutoChain(cfg, h, n)
      [] cfg.provider = "tushare" -> try_tushare(cfg, h, n)
      [] cfg.provider = "rqdata"  -> try_rqdata(cfg, h, n)
      [] cfg.provider = "akshare" -> try_akshare(cfg, h, n)
      [] OTHER                    -> Tried(None, <<>>, <<>>)

\* the mode test with the else branch missing
KnownModeAny(m) == TRUE

\* the modes the if/elif chain has a branch for
KnownMode(m) == m \in {"auto", "tushare", "rqdata", "akshare"}

\* the final test with the raise missing
NotInitializedNever(p) == FALSE

\* `if not _provider_instance:` after the chain
NotInitialized(p) == p = None

\* the cache test with the cache ignored: every call probes again
CacheHitNever(cache) == FALSE

\* `if _provider_instance:` a provider object is true, None is false
CacheHit(cache) == cache # None

\* get_data_provider(), the n-th call of the process: from the cache, the
\* configuration and the backends' health to the new cache, how the call ended
\* and what it did
get_data_provider(cache, cfg, h, n) ==
    IF CacheHit(cache)
    THEN [cache |-> cache, outcome |-> "return", value |-> cache,
          ctor |-> <<>>, remote |-> <<>>]
    ELSE IF ~KnownMode(cfg.provider)
    THEN [cache |-> cache, outcome |-> "ValueError", value |-> None,
          ctor |-> <<>>, remote |-> <<>>]
    ELSE LET t == ByMode(cfg, h, n) IN
         [cache   |-> t.provider,
          outcome |-> IF NotInitialized(t.provider) THEN "RuntimeError" ELSE "return",
          value   |-> t.provider,
          ctor    |-> t.ctor,
          remote  |-> t.remote]

NoCall == [cfg |-> [provider |-> "auto", tushare_token |-> "",
                    rqdata_username |-> "", rqdata_password |-> ""],
           health |-> [pro_api |-> FALSE, trade_cal |-> FALSE, rq_init |-> FALSE],
           before |-> None, outcome |-> "none", value |-> None,
           ctor |-> <<>>, remote |-> <<>>]

\* a caller other than run() calls get_data_provider()
SelectorCall ==
    /\ ncalls < MaxCalls
    /\ \E cfg \in Configs, h \in Healths :
         LET r == get_data_provider(provider_instance, cfg, h, ncalls + 1) IN
         /\ provider_instance' = r.cache
         /\ call' = [cfg |-> cfg, health |-> h, before |-> provider_instance,
                     outcome |-> r.outcome, value |-> r.value,
                     ctor |-> r.ctor, remote |-> r.remote]
    /\ ncalls' = ncalls + 1
    /\ UNCHANGED <<runVars, provVars, cleanVars>>

-----------------------------------------------------------------------------
(* The provider's fetch and the tool: tool/stock_info_request.py *)

\* what the backend answers to the basic-info request
Remotes == {"data", "empty", "raise"}

\* Python's None, as a basic-info value
NoInfo == [symbol |-> "", source |-> "None"]

\* provider.get_stock_basic_info(stock_code): the dict of the backend's row,
\* None when the backend has no row or the remote call raised
get_stock_basic_info(provider, code, remote) ==
    IF remote = "data"
    THEN [symbol |-> code, source |-> provider.backend]
    ELSE NoInfo

\* get_recent_trading_day()
TradingDay == "20250102"

\* Python's empty dict
EmptyDict == [k \in {} |-> ""]

\* StockInfoResponse(error=..., output=...): error "" is Python's None
StockInfoResponse(err, out) == [error |-> err, output |-> out]

\* str(e) of the two errors get_data_provider raises
ErrorText(outcome, mode) ==
    IF outcome = "ValueError"
    THEN "Unknown data provider: " \o mode
    ELSE "Could not initialize data provider: " \o mode

\* execute's handlers with the configuration errors let through
ExecuteLetsConfigEscape(type) == type \notin {"ValueError", "RuntimeError"}

\* the two handlers of execute(), `except (ValueError, RuntimeError)` and
\* `except Exception`: between them every Exception is caught
ExecuteCatches(type) == TRUE

\* the response execute() builds for an exception it caught; the second
\* prefix stands for the source's Chinese text "failed to get the stock
\* information: "
Caught(type, text) ==
    IF type \in {"ValueError", "RuntimeError"}
    THEN StockInfoResponse("Data provider configuration error: " \o text, EmptyDict)
    ELSE StockInfoResponse("stock info request failed: " \o text, EmptyDict)

\* how execute() ends when its body raised: a response, or the exception
\* itself for one no handler catches
Handled(type, text, cache, called) ==
    IF ExecuteCatches(type)
    THEN [response |-> Caught(type, text), cache |-> cache, called |-> called,
          raised |-> FALSE, exc |-> [type |-> type, text |-> text]]
    ELSE [response |-> StockInfoResponse("", EmptyDict), cache |-> cache,
          called |-> called, raised |-> TRUE, exc |-> [type |-> type, text |-> text]]

\* a response execute() returns from its body
Answered(resp, cache) ==
    [response |-> resp, cache |-> cache, called |-> TRUE, raised |-> FALSE,
     exc |-> [type |-> "", text |-> ""]]

\* StockInfoRequest.execute(stock_code), whose selector call would be the
\* n-th of the process: the response, the selector's effect on the cache and
\* whether the selector was called. tdok: get_recent_trading_day() returns.
execute(cache, cfg, h, n, code, tdok, remote) ==
    IF ~tdok
    THEN Handled("OSError", "calendar unavailable", cache, FALSE)
    ELSE LET r == get_data_provider(cache, cfg, h, n) IN
         IF r.outcome # "return"
         THEN Handled(r.outcome, ErrorText(r.outcome, cfg.provider), r.cache, TRUE)
         ELSE IF r.value = None
         THEN Answered(StockInfoResponse("Could not get a valid data provider.",
                                         EmptyDict), r.cache)
         ELSE LET info == get_stock_basic_info(r.value, code, remote) IN
              IF info = NoInfo
              THEN Answered(StockInfoResponse(
                       "Failed to fetch stock basic info from any provider.",
                       EmptyDict), r.cache)
              ELSE Answered(StockInfoResponse("",
                       [current_trading_day |-> TradingDay, basic_info |-> info]),
                       r.cache)

-----------------------------------------------------------------------------
(* The orchestrator: environment/research.py *)

\* analysis_mapping, in the order of the dict: <<agent key, result key>>
AnalysisMapping ==
    << <<"sentiment_agent", "sentiment">>,
       <<"risk_control_agent", "risk">>,
       <<"hot_money_agent", "hot_money">>,
       <<"technical_analysis_agent", "technical">>,
       <<"chip_analysis_agent", "chip_analysis">>,
       <<"big_deal_analysis_agent", "big_deal">> >>

AgentKeys == {AnalysisMapping[i][1] : i \in 1..Len(AnalysisMapping)}
ResultKeys == {AnalysisMapping[i][2] : i \in 1..Len(AnalysisMapping)}

\* the result key analysis_mapping gives an agent key
ResultKeyOf(a) ==
    AnalysisMapping[CHOOSE i \in 1..Len(AnalysisMapping) : AnalysisMapping[i][1] = a][2]

\* asyncio.Semaphore(3)
SemaphoreValue == 3

StockCodes == {"600519"}

\* how agent.run ended: it returned text, it raised Exception(text), or it
\* has not ended
Pending == [kind |-> "pending", text |-> ""]
Returned(a) == [kind |-> "return", text |-> "report of " \o a]
Raised(a) == [kind |-> "exception", text |-> "fault in " \o a]

\* what run() gave its caller
NoReturn == [kind |-> "none", value |-> EmptyDict]

\* the exceptions memory.add_message may raise
SeedFaults == {[type |-> "ValueError", text |-> "message rejected"],
               [type |-> "TypeError", text |-> "message is not a Message"]}

\* the error test with the error ignored
FetchFailedNever(resp) == FALSE

\* `if basic_info_result.error:` the response carries an error
FetchFailed(resp) == resp.error # ""

\* the emptiness test with the dict taken as never empty
IsEmptyNever(d) == FALSE

\* `if not results:` the dict is empty
IsEmpty(d) == DOMAIN d = {}

Min(a, b) == IF a < b THEN a ELSE b

\* the pairs of analysis_mapping whose agent key is registered: one task is
\* appended for each, in the mapping's order (the dispatch loop)
RECURSIVE Registered(_, _)
Registered(m, ags) ==
    IF m = <<>> THEN <<>>
    ELSE IF Head(m)[1] \in ags
         THEN <<Head(m)>> \o Registered(Tail(m), ags)
         ELSE Registered(Tail(m), ags)

\* the list asyncio.gather returns: the tasks' results in the order of `tasks`
TaskResults(ags, tr) ==
    LET ts == Registered(AnalysisMapping, ags) IN
    [i \in 1..Len(ts) |-> tr[ts[i][1]]]

\* the failure string without its prefix
FormatBare(r) == r.text

\* f"Error: {str(result)}"
Format(r) == "Error: " \o r.text

\* isinstance(result, Exception)
IsException(r) == r.kind = "exception"

\* the value stored for one gathered result
Entry(r) == IF IsException(r) THEN Format(r) ELSE r.text

\* the aggregation loop: zip(self.analysis_mapping.items(), task_results)
\* pairs the i-th item of the mapping with the i-th gathered result
Aggregated(trs) ==
    LET n == Min(Len(AnalysisMapping), Len(trs)) IN
    [k \in {AnalysisMapping[i][2] : i \in 1..n} |->
        Entry(trs[CHOOSE i \in 1..n : AnalysisMapping[i][2] = k])]

\* the barrier of a wait for the first task only
FirstCompleted(ags, t) == \E a \in ags : t[a] = "done"

\* await asyncio.gather(*tasks, return_exceptions=True) returns when every
\* task has ended (at once when there is none)
GatherDone(ags, t) == \A a \in ags : t[a] = "done"

\* a handler for configuration errors only
CatchesConfigOnly(e) == e.type \in {"ValueError", "RuntimeError"}

\* `except Exception` of run(): every Exception is caught
RunCatches(e) == TRUE

\* a gate that admits everyone
AdmitAlways(s) == TRUE

\* Semaphore.acquire() proceeds without waiting while the value is positive
CanAcquire(s) == s > 0

\* how run() ends when an exception reaches its `except Exception`
Failed(e, code) ==
    IF RunCatches(e)
    THEN [kind |-> "return", value |-> [error |-> e.text, stock_code |-> code]]
    ELSE [kind |-> "raise", value |-> [error |-> e.text, stock_code |-> code]]

\* run(stock_code) is called
RunCall ==
    /\ pc = "idle"
    /\ \E code \in StockCodes : stock_code' = code
    /\ pc' = "fetch"
    /\ UNCHANGED <<provVars, cleanVars, started, selVars, agents, hasMemory, memory, basic_info_result, task,
                   task_result, sem, results, env_results, ret>>

\* basic_info_tool.execute(stock_code=stock_code), in an environment whose
\* configuration, backend health, trading-day lookup and remote answer are
\* drawn from the given sets
FetchIn(cfgs, healths, tdoks, remotes) ==
    /\ pc = "fetch"
    /\ \E cfg \in cfgs, h \in healths, tdok \in tdoks, remote \in remotes :
         LET x == execute(provider_instance, cfg, h, ncalls + 1, stock_code,
                          tdok, remote) IN
         /\ basic_info_result' = x.response
         /\ provider_instance' = x.cache
         /\ ncalls' = IF x.called THEN ncalls + 1 ELSE ncalls
         /\ IF x.raised
            THEN ret' = Failed(x.exc, stock_code) /\ pc' = "returned"
            ELSE ret' = ret /\ pc' = "seed"
    /\ UNCHANGED <<provVars, cleanVars, started, call, agents, hasMemory, memory, stock_code, task,
                   task_result, sem, results, env_results>>

\* the fetch in any environment
Fetch == FetchIn(Configs, Healths, BOOLEAN, Remotes)

\* the seeding loop's targets, in the mapping's order: get_agent(key) is not
\* None and hasattr(agent, "memory")
SeedTargets(hm) == Registered(AnalysisMapping, agents \cap hm)

\* the memories with two messages added per target
AddMessageTwice(mem, targets) ==
    [a \in AgentKeys |-> IF a \in targets THEN mem[a] + 2 ELSE mem[a]]

\* agent.memory.add_message(...) done once for each of the targets
AddMessage(mem, targets) ==
    [a \in AgentKeys |-> IF a \in targets THEN mem[a] + 1 ELSE mem[a]]

\* the sets of registered agents that may be the ones with a `memory`
\* attribute
MemorySets == {hm \in SUBSET agents : Cardinality(agents \ hm) <= MaxNoMemory}

\* the seeding of the specialists' context. hm: the registered agents that
\* have a `memory` attribute, read by the loop's hasattr test, one of hms.
SeedOf(hms) ==
    /\ pc = "seed"
    /\ \/ /\ FetchFailed(basic_info_result)
          /\ pc' = "dispatch"
          /\ UNCHANGED <<memory, hasMemory, ret>>
       \/ /\ ~FetchFailed(basic_info_result)
          /\ \E hm \in hms :
               /\ hasMemory' = hm
               /\ memory' = AddMessage(memory, hm)
          /\ pc' = "dispatch"
          /\ UNCHANGED ret
       \/ /\ ~FetchFailed(basic_info_result)
          /\ \E hm \in hms :
               /\ hasMemory' = hm
               /\ \E k \in 1..Len(SeedTargets(hm)), e \in SeedFaults :
                    \* add_message raises for the k-th target
                    /\ memory' = AddMessage(memory,
                                    {SeedTargets(hm)[i][1] : i \in 1..(k - 1)})
                    /\ ret' = Failed(e, stock_code)
          /\ pc' = "returned"
    /\ UNCHANGED <<provVars, cleanVars, started, selVars, agents, stock_code, basic_info_result, task,
                   task_result, sem, results, env_results>>

\* the seeding with any of the registered agents lacking a memory
Seed == SeedOf(MemorySets)

\* the semaphore is created and one task appended per registered agent
Dispatch ==
    /\ pc = "dispatch"
    /\ sem' = SemaphoreValue
    /\ task' = [a \in AgentKeys |-> IF a \in agents THEN "waiting" ELSE "none"]
    /\ pc' = "gather"
    /\ UNCHANGED <<provVars, cleanVars, started, selVars, agents, hasMemory, memory, stock_code,
                   basic_info_result, task_result, results, env_results, ret>>

\* a task that goes back to wait for a slot when agent.run has ended
Retried(t, a) == [t EXCEPT ![a] = "waiting"]

\* run_with_semaphore ends with agent.run: its task is done
Finished(t, a) == [t EXCEPT ![a] = "done"]

\* `async with semaphore` left on return: the slot is given back
Released(s) == s + 1

\* an exit that keeps the slot when the body raised
KeptOnRaise(s) == s

\* `async with semaphore` left by an exception: the slot is given back
ReleasedOnRaise(s) == s + 1

\* run_with_semaphore: `async with semaphore` is entered
Acquire(a) ==
    /\ pc = "gather"
    /\ task[a] = "waiting"
    /\ CanAcquire(sem)
    /\ sem' = sem - 1
    /\ task' = [task EXCEPT ![a] = "running"]
    /\ started' = [started EXCEPT ![a] = started[a] + 1]
    /\ UNCHANGED <<provVars, cleanVars, selVars, agents, hasMemory, memory, pc, stock_code,
                   basic_info_result, task_result, results, env_results, ret>>

\* agent.run(stock_code) returns; the slot is released
AgentReturns(a) ==
    /\ pc = "gather"
    /\ task[a] = "running"
    /\ task_result' = [task_result EXCEPT ![a] = Returned(a)]
    /\ task' = Finished(task, a)
    /\ sem' = Released(sem)
    /\ UNCHANGED <<provVars, cleanVars, started, selVars, agents, hasMemory, memory, pc, stock_code,
                   basic_info_result, results, env_results, ret>>

\* agent.run(stock_code) raises; the slot is released
AgentRaises(a) ==
    /\ pc = "gather"
    /\ task[a] = "running"
    /\ task_result' = [task_result EXCEPT ![a] = Raised(a)]
    /\ task' = Finished(task, a)
    /\ sem' = ReleasedOnRaise(sem)
    /\ UNCHANGED <<provVars, cleanVars, started, selVars, agents, hasMemory, memory, pc, stock_code,
                   basic_info_result, results, env_results, ret>>

\* the results stored as they are, without the stock code
WithoutStockCode(rs, code) == rs

\* {**results, "stock_code": stock_code}
WithStockCode(rs, code) == ("stock_code" :> code) @@ rs

\* gather returns; the results are aggregated, stored and returned
Aggregate ==
    /\ pc = "gather"
    /\ GatherDone(agents, task)
    /\ LET rs == Aggregated(TaskResults(agents, task_result)) IN
       /\ results' = rs
       /\ IF IsEmpty(rs)
          THEN /\ ret' = [kind |-> "return",
                          value |-> [error |-> "No specialist agents completed successfully",
                                     stock_code |-> stock_code]]
               /\ UNCHANGED env_results
          ELSE LET withInfo ==
                       IF ~FetchFailed(basic_info_result)
                       THEN rs @@ ("basic_info" :> basic_info_result.output)
                       ELSE rs
                   full == WithStockCode(withInfo, stock_code)
               IN /\ env_results' = full
                  /\ ret' = [kind |-> "return", value |-> full]
    /\ pc' = "returned"
    /\ UNCHANGED <<provVars, cleanVars, started, selVars, agents, hasMemory, memory, stock_code,
                   basic_info_result, task, task_result, sem>>

-----------------------------------------------------------------------------
(* The providers: src/tool/data_provider/{tushare,rqdata,akshare}_provider.py.
   A string the code inspects is a sequence of one-character strings. *)

Digits == {"0", "1", "2", "3", "4", "5", "6", "7", "8", "9"}

\* the canonical codes: non-empty digit strings
Codes == UNION {[1..n -> Digits] : n \in 1..MaxCodeLen}

\* code.startswith(c), c one character
StartsWith(s, c) == Len(s) >= 1 /\ s[1] = c

\* the tushare translator with the Beijing branch missing
convert_to_ts_code_without_beijing(code) ==
    IF StartsWith(code, "6")
    THEN code \o <<".", "S", "H">>
    ELSE IF StartsWith(code, "0") \/ StartsWith(code, "3")
    THEN code \o <<".", "S", "Z">>
    ELSE code \o <<".", "S", "H">>

\* TushareProvider._convert_to_ts_code
convert_to_ts_code(code) ==
    IF StartsWith(code, "6")
    THEN code \o <<".", "S", "H">>
    ELSE IF StartsWith(code, "0") \/ StartsWith(code, "3")
    THEN code \o <<".", "S", "Z">>
    ELSE IF StartsWith(code, "8") \/ StartsWith(code, "4")
    THEN code \o <<".", "B", "J">>
    ELSE code \o <<".", "S", "H">>

\* RQDataProvider._convert_to_rq_code
convert_to_rq_code(code) ==
    IF StartsWith(code, "6")
    THEN code \o <<".", "X", "S", "H", "G">>
    ELSE IF StartsWith(code, "0") \/ StartsWith(code, "3")
    THEN code \o <<".", "X", "S", "H", "E">>
    ELSE IF StartsWith(code, "8") \/ StartsWith(code, "4")
    THEN code \o <<".", "X", "S", "E", "S">>
    ELSE code \o <<".", "X", "S", "H", "G">>

\* s.split('.')[0]: the characters before the first '.'
RECURSIVE SplitDotFirst(_)
SplitDotFirst(s) ==
    IF s = <<>> \/ Head(s) = "."
    THEN <<>>
    ELSE <<Head(s)>> \o SplitDotFirst(Tail(s))

\* ",".join(strs)
RECURSIVE JoinComma(_)
JoinComma(strs) ==
    IF strs = <<>> THEN <<>>
    ELSE IF Len(strs) = 1 THEN strs[1]
    ELSE strs[1] \o <<",">> \o JoinComma(Tail(strs))

\* date.replace("-", "")
RemoveDashes(date) == SelectSeq(date, LAMBDA ch : ch # "-")

\* `if not isinstance(stock_codes, list): stock_codes = [stock_codes]`
AsList(arg) == IF arg.isList THEN arg.items ELSE <<arg.code>>

\* a remote call: the backend function and the code argument it was given
RemoteCall(api, arg) == [api |-> api, arg |-> arg]

\* what a provider operation gives its caller
NoneValue == [kind |-> "None"]
Gives(value, calls) == [outcome |-> "return", value |-> value, calls |-> calls]

\* an operation that lets the remote call's exception reach its caller
Propagated(calls) == [outcome |-> "raise", value |-> NoneValue, calls |-> calls]

\* `except Exception as e: print(...); return None`
Swallowed(calls) == Gives(NoneValue, calls)

\* the rows a backend answers a quote request with: one per code asked
QuoteRows(answer, codes) == IF answer = "data" THEN codes ELSE <<>>

\* the quotes dict: its keys
Quotes(keys) == [kind |-> "dict", keys |-> {keys[i] : i \in 1..Len(keys)}]

\* TushareProvider.get_stock_basic_info
tushare_get_stock_basic_info(code, answers) ==
    LET ts_code == convert_to_ts_code(code)
        c1 == <<RemoteCall("stock_basic", ts_code)>>
        c2 == c1 \o <<RemoteCall("daily_basic", ts_code)>>
    IN CASE answers[1] = "raise" -> Swallowed(c1)
         [] answers[1] = "empty" -> Gives(NoneValue, c1)
         [] OTHER ->
              IF answers[2] = "raise"
              THEN Swallowed(c2)
              ELSE Gives([kind |-> "dict", of |-> ts_code,
                          updated |-> answers[2] = "data"], c2)

\* get_daily_market_data handing the bare code to pro.daily
tushare_get_daily_market_data_bare(code, start_date, end_date, answers) ==
    LET c == <<[api |-> "daily", arg |-> code,
                start_date |-> RemoveDashes(start_date),
                end_date |-> RemoveDashes(end_date)]>>
    IN IF answers[1] = "raise"
       THEN Swallowed(c)
       ELSE Gives([kind |-> "DataFrame", empty |-> answers[1] = "empty"], c)

\* TushareProvider.get_daily_market_data
tushare_get_daily_market_data(code, start_date, end_date, answers) ==
    LET ts_code == convert_to_ts_code(code)
        c == <<[api |-> "daily", arg |-> ts_code,
                start_date |-> RemoveDashes(start_date),
                end_date |-> RemoveDashes(end_date)]>>
    IN IF answers[1] = "raise"
       THEN Swallowed(c)
       ELSE Gives([kind |-> "DataFrame", empty |-> answers[1] = "empty"], c)

\* TushareProvider.get_real_time_quotes
tushare_get_real_time_quotes(arg, answers) ==
    LET stock_codes == AsList(arg)
        ts_codes == [i \in 1..Len(stock_codes) |-> convert_to_ts_code(stock_codes[i])]
        c == <<RemoteCall("daily_basic", JoinComma(ts_codes))>>
        rows == QuoteRows(answers[1], ts_codes)
    IN CASE answers[1] = "raise" -> Swallowed(c)
         [] rows = <<>> -> Gives(NoneValue, c)
         [] OTHER -> Gives(Quotes([i \in 1..Len(rows) |-> SplitDotFirst(rows[i])]), c)

\* RQDataProvider.get_stock_basic_info
rqdata_get_stock_basic_info(code, answers) ==
    LET rq_code == convert_to_rq_code(code)
        c == <<RemoteCall("instruments", rq_code)>>
    IN CASE answers[1] = "raise" -> Swallowed(c)
         [] answers[1] = "empty" -> Gives(NoneValue, c)
         [] OTHER -> Gives([kind |-> "dict", of |-> rq_code, updated |-> FALSE], c)

\* RQDataProvider.get_daily_market_data
rqdata_get_daily_market_data(code, start_date, end_date, answers) ==
    LET rq_code == convert_to_rq_code(code)
        c == <<[api |-> "get_price", arg |-> rq_code,
                start_date |-> start_date, end_date |-> end_date]>>
    IN IF answers[1] = "raise"
       THEN Swallowed(c)
       ELSE Gives([kind |-> "DataFrame", empty |-> answers[1] = "empty"], c)

\* RQDataProvider.get_real_time_quotes
rqdata_get_real_time_quotes(arg, answers) ==
    LET stock_codes == AsList(arg)
        rq_codes == [i \in 1..Len(stock_codes) |-> convert_to_rq_code(stock_codes[i])]
        c == <<RemoteCall("current_snapshot", rq_codes)>>
        rows == QuoteRows(answers[1], rq_codes)
    IN CASE answers[1] = "raise" -> Swallowed(c)
         [] rows = <<>> -> Gives(NoneValue, c)
         [] OTHER -> Gives(Quotes([i \in 1..Len(rows) |-> SplitDotFirst(rows[i])]), c)

\* AkshareProvider.get_stock_basic_info
akshare_get_stock_basic_info(code, answers) ==
    LET c == <<RemoteCall("stock_individual_info_em", code)>>
    IN CASE answers[1] = "raise" -> Swallowed(c)
         [] answers[1] = "empty" -> Gives(NoneValue, c)
         [] OTHER -> Gives([kind |-> "dict", of |-> code, updated |-> FALSE], c)

\* AkshareProvider.get_daily_market_data
akshare_get_daily_market_data(code, start_date, end_date, answers) ==
    LET c == <<[api |-> "stock_zh_a_hist", arg |-> code,
                start_date |-> RemoveDashes(start_date),
                end_date |-> RemoveDashes(end_date)]>>
    IN IF answers[1] = "raise"
       THEN Swallowed(c)
       ELSE Gives([kind |-> "DataFrame", empty |-> answers[1] = "empty"], c)

\* AkshareProvider.get_real_time_quotes
akshare_get_real_time_quotes(arg, answers) ==
    LET stock_codes == AsList(arg)
        c == <<RemoteCall("stock_zh_a_spot_em", JoinComma(stock_codes))>>
        rows == QuoteRows(answers[1], stock_codes)
    IN CASE answers[1] = "raise" -> Swallowed(c)
         [] rows = <<>> -> Gives(NoneValue, c)
         [] OTHER -> Gives(Quotes(rows), c)

NoRequest == [backend |-> "None", method |-> "none"]
NotFetched == [outcome |-> "none"]

\* the arguments the provider operations are called with
Dates == {<<"2", "0", "2", "5", "-", "0", "1", "-", "0", "2">>}
OneDigitCodes == [1..1 -> Digits]

\* the answers of the remote calls an operation makes, in order: only
\* tushare's basic info makes a second call, after a first with data
Answers(b, m) ==
    IF b = "tushare" /\ m = "get_stock_basic_info"
    THEN {<<"empty">>, <<"raise">>} \cup {<<"data", a>> : a \in Remotes}
    ELSE {<<a>> : a \in Remotes}

\* provider.get_stock_basic_info(stock_code)
BasicInfoRequest(b, c, as) ==
    [backend |-> b, method |-> "get_stock_basic_info", stock_code |-> c,
     answers |-> as]

\* provider.get_daily_market_data(stock_code, start_date, end_date)
DailyMarketDataRequest(b, c, d, as) ==
    [backend |-> b, method |-> "get_daily_market_data", stock_code |-> c,
     start_date |-> d, end_date |-> d, answers |-> as]

\* provider.get_real_time_quotes(stock_codes): a single code, or a list
QuotesRequest(b, q, as) ==
    [backend |-> b, method |-> "get_real_time_quotes", stock_codes |-> q,
     answers |-> as]
SingleCode(c) == [isList |-> FALSE, code |-> c]
CodeList(cs) == [isList |-> TRUE, items |-> cs]

\* operation m of the provider of backend b is applied to the request
Fetches(b, m, result) ==
    /\ fetched = NotFetched
    /\ request.backend = b /\ request.method = m
    /\ fetched' = result
    /\ UNCHANGED <<request, selVars, runVars, cleanVars>>

TushareBasicInfo ==
    Fetches("tushare", "get_stock_basic_info",
            tushare_get_stock_basic_info(request.stock_code, request.answers))
TushareDailyMarketData ==
    Fetches("tushare", "get_daily_market_data",
            tushare_get_daily_market_data(request.stock_code, request.start_date,
                                          request.end_date, request.answers))
TushareRealTimeQuotes ==
    Fetches("tushare", "get_real_time_quotes",
            tushare_get_real_time_quotes(request.stock_codes, request.answers))
RQDataBasicInfo ==
    Fetches("rqdata", "get_stock_basic_info",
            rqdata_get_stock_basic_info(request.stock_code, request.answers))
RQDataDailyMarketData ==
    Fetches("rqdata", "get_daily_market_data",
            rqdata_get_daily_market_data(request.stock_code, request.start_date,
                                         request.end_date, request.answers))
RQDataRealTimeQuotes ==
    Fetches("rqdata", "get_real_time_quotes",
            rqdata_get_real_time_quotes(request.stock_codes, request.answers))
AkshareBasicInfo ==
    Fetches("akshare", "get_stock_basic_info",
            akshare_get_stock_basic_info(request.stock_code, request.answers))
AkshareDailyMarketData ==
    Fetches("akshare", "get_daily_market_data",
            akshare_get_daily_market_data(request.stock_code, request.start_date,
                                          request.end_date, request.answers))
AkshareRealTimeQuotes ==
    Fetches("akshare", "get_real_time_quotes",
            akshare_get_real_time_quotes(request.stock_codes, request.answers))

-----------------------------------------------------------------------------
(* ResearchEnvironment.cleanup: src/environment/research.py *)

\* a gather that returns as soon as one of the cleanups has ended
FirstCleaned(hc, t) == \E a \in hc : t[a] = "done"

\* gather(*cleanup_tasks) returns: every cleanup has ended without raising
AllCleaned(hc, t) == \A a \in hc : t[a] = "done"

\* cleanup() is called: the cleanup coroutines of the agents that have a
\* `cleanup` attribute are created and, unless there are none, gathered
CleanupCall ==
    /\ cleanup_pc = "idle"
    /\ \E hc \in SUBSET agents :
         /\ hasCleanup' = hc
         /\ cleanup_task' = [a \in AgentKeys |->
                                IF a \in hc THEN "running" ELSE "none"]
         /\ cleanup_started' = [a \in AgentKeys |->
                                   IF a \in hc THEN cleanup_started[a] + 1
                                   ELSE cleanup_started[a]]
         /\ cleanup_pc' = IF hc = {} THEN "super" ELSE "gather"
    /\ UNCHANGED <<released, selVars, runVars, provVars>>

\* agent.cleanup() returns
CleanupReturns(a) ==
    /\ cleanup_pc \in {"gather", "raised"}
    /\ cleanup_task[a] = "running"
    /\ cleanup_task' = [cleanup_task EXCEPT ![a] = "done"]
    /\ UNCHANGED <<cleanup_pc, hasCleanup, cleanup_started, released,
                   selVars, runVars, provVars>>

\* agent.cleanup() raises
CleanupRaises(a) ==
    /\ cleanup_pc \in {"gather", "raised"}
    /\ cleanup_task[a] = "running"
    /\ cleanup_task' = [cleanup_task EXCEPT ![a] = "failed"]
    /\ UNCHANGED <<cleanup_pc, hasCleanup, cleanup_started, released,
                   selVars, runVars, provVars>>

\* `await asyncio.gather(*cleanup_tasks)` returns
CleanupGatherReturns ==
    /\ cleanup_pc = "gather"
    /\ AllCleaned(hasCleanup, cleanup_task)
    /\ cleanup_pc' = "super"
    /\ UNCHANGED <<hasCleanup, cleanup_task, cleanup_started, released,
                   selVars, runVars, provVars>>

\* a gather that cancels the cleanups still running when one has raised
OthersCancelled(t) ==
    [a \in AgentKeys |-> IF t[a] = "running" THEN "cancelled" ELSE t[a]]

\* gather without return_exceptions, when one awaitable has raised: the
\* others are left as they are and go on running
OthersLeftRunning(t) == t

\* `await asyncio.gather(*cleanup_tasks)` raises the first exception of a
\* cleanup, which leaves cleanup(); the other cleanups are not cancelled
CleanupGatherRaises ==
    /\ cleanup_pc = "gather"
    /\ \E a \in hasCleanup : cleanup_task[a] = "failed"
    /\ cleanup_pc' = "raised"
    /\ cleanup_task' = OthersLeftRunning(cleanup_task)
    /\ UNCHANGED <<hasCleanup, cleanup_started, released,
                   selVars, runVars, provVars>>

\* `await super().cleanup()`: the environment's own resources are released
SuperCleanup ==
    /\ cleanup_pc = "super"
    /\ released' = TRUE
    /\ cleanup_pc' = "returned"
    /\ UNCHANGED <<hasCleanup, cleanup_task, cleanup_started,
                   selVars, runVars, provVars>>

-----------------------------------------------------------------------------
(* The specifications *)

NoResponse == StockInfoResponse("", EmptyDict)

\* the state all specifications start the selector in: nothing cached
InitSelector ==
    /\ provider_instance = None
    /\ call = NoCall
    /\ ncalls = 0

\* an initialized environment on which run() has not been called
InitRun ==
    /\ agents \in SUBSET AgentKeys
    /\ hasMemory = {}
    /\ memory = [a \in AgentKeys |-> 0]
    /\ pc = "idle"
    /\ stock_code = ""
    /\ basic_info_result = NoResponse
    /\ task = [a \in AgentKeys |-> "none"]
    /\ task_result = [a \in AgentKeys |-> Pending]
    /\ sem = 0
    /\ results = EmptyDict
    /\ env_results = EmptyDict
    /\ ret = NoReturn
    /\ started = [a \in AgentKeys |-> 0]

\* no provider operation under way
InitNoFetch ==
    /\ request = NoRequest
    /\ fetched = NotFetched

\* cleanup() has not been called
InitNoCleanup ==
    /\ cleanup_pc = "idle"
    /\ hasCleanup = {}
    /\ cleanup_task = [a \in AgentKeys |-> "none"]
    /\ cleanup_started = [a \in AgentKeys |-> 0]
    /\ released = FALSE

Init == InitSelector /\ InitRun /\ InitNoFetch /\ InitNoCleanup

\* what an earlier call of run() may have left in `results`: nothing, or,
\* when a specialist is registered, the aggregate of a run whose fetch
\* failed and whose specialists all returned, or all raised
PreviousResults(ags) ==
    {EmptyDict} \cup
    IF ags = {} THEN {}
    ELSE {WithStockCode(Aggregated(TaskResults(ags, trs)), code) :
             trs \in {[a \in AgentKeys |-> Returned(a)],
                      [a \in AgentKeys |-> Raised(a)]},
             code \in StockCodes}

\* an environment on which run() is called again: as Init, but `results`
\* may hold the aggregate of an earlier run
InitAgain ==
    /\ InitSelector /\ InitNoFetch /\ InitNoCleanup
    /\ agents \in SUBSET AgentKeys
    /\ hasMemory = {}
    /\ memory = [a \in AgentKeys |-> 0]
    /\ pc = "idle"
    /\ stock_code = ""
    /\ basic_info_result = NoResponse
    /\ task = [a \in AgentKeys |-> "none"]
    /\ task_result = [a \in AgentKeys |-> Pending]
    /\ sem = 0
    /\ results = EmptyDict
    /\ env_results \in PreviousResults(agents)
    /\ ret = NoReturn
    /\ started = [a \in AgentKeys |-> 0]

\* the process after initialize(): all six specialists registered
InitInitialized == Init /\ agents = AgentKeys

\* a provider about to be asked for one operation
InitProvider ==
    /\ InitSelector /\ InitRun /\ agents = AgentKeys /\ InitNoCleanup
    /\ \E b \in Backends :
         \/ \E c \in Codes, as \in Answers(b, "get_stock_basic_info") :
                request = BasicInfoRequest(b, c, as)
         \/ \E c \in Codes, d \in Dates, as \in Answers(b, "get_daily_market_data") :
                request = DailyMarketDataRequest(b, c, d, as)
         \/ \E as \in Answers(b, "get_real_time_quotes") :
                \/ \E c \in Codes : request = QuotesRequest(b, SingleCode(c), as)
                \/ request = QuotesRequest(b, CodeList(<<>>), as)
                \/ \E c \in Codes : request = QuotesRequest(b, CodeList(<<c>>), as)
                \/ \E c \in Codes, d \in OneDigitCodes :
                       request = QuotesRequest(b, CodeList(<<c, d>>), as)
    /\ fetched = NotFetched

NextProvider ==
    \/ TushareBasicInfo
    \/ TushareDailyMarketData
    \/ TushareRealTimeQuotes
    \/ RQDataBasicInfo
    \/ RQDataDailyMarketData
    \/ RQDataRealTimeQuotes
    \/ AkshareBasicInfo
    \/ AkshareDailyMarketData
    \/ AkshareRealTimeQuotes

SpecProvider == InitProvider /\ [][NextProvider]_vars

NextCleanup ==
    \/ CleanupCall
    \/ \E a \in AgentKeys : CleanupReturns(a)
    \/ \E a \in AgentKeys : CleanupRaises(a)
    \/ CleanupGatherReturns
    \/ CleanupGatherRaises
    \/ SuperCleanup

\* cleanup() of an environment with any registry
SpecCleanup == Init /\ [][NextCleanup]_vars

NextSelector == SelectorCall

SpecSelector == InitInitialized /\ [][NextSelector]_vars

Next ==
    \/ RunCall
    \/ Fetch
    \/ Seed
    \/ Dispatch
    \/ \E a \in AgentKeys : Acquire(a)
    \/ \E a \in AgentKeys : AgentReturns(a)
    \/ \E a \in AgentKeys : AgentRaises(a)
    \/ Aggregate

Spec == Init /\ [][Next]_vars

\* the environment of the fair runs: mode akshare without credentials, the
\* trading-day lookup succeeds, the backend answers in any way; every
\* registered specialist has a memory
LiveConfigs == {cfg \in Configs : /\ cfg.provider = "akshare"
                                  /\ cfg.tushare_token = ""
                                  /\ cfg.rqdata_username = ""
                                  /\ cfg.rqdata_password = ""}
LiveHealths == {h \in Healths : h.pro_api /\ h.trade_cal /\ h.rq_init}
FetchLive == FetchIn(LiveConfigs, LiveHealths, {TRUE}, Remotes)
SeedLive == SeedOf({agents})

NextLive ==
    \/ RunCall
    \/ FetchLive
    \/ SeedLive
    \/ Dispatch
    \/ \E a \in AgentKeys : Acquire(a)
    \/ \E a \in AgentKeys : AgentReturns(a)
    \/ \E a \in AgentKeys : AgentRaises(a)
    \/ Aggregate

\* the event loop runs every step that stays ready, and every agent.run
\* that was entered ends, by returning or by raising
Fairness ==
    /\ WF_vars(FetchLive)
    /\ WF_vars(SeedLive)
    /\ WF_vars(Dispatch)
    /\ \A a \in AgentKeys : WF_vars(Acquire(a))
    /\ \A a \in AgentKeys : WF_vars(AgentReturns(a) \/ AgentRaises(a))
    /\ WF_vars(Aggregate)

\* run() of the initialized environment under a fair event loop
SpecLive == InitInitialized /\ [][NextLive]_vars /\ Fairness

\* one more call of run(), in the environment of the fair runs
SpecAgain == InitAgain /\ [][NextLive]_vars

-----------------------------------------------------------------------------
(* Notions the properties are stated in *)

\* the specialists inside agent.run: entered and not yet left
Running == {a \in AgentKeys : task[a] = "running"}
Waiting == {a \in AgentKeys : task[a] = "waiting"}

\* the entry a specialist's own outcome should give: its returned value
\* unchanged, or the failure string built from its exception
OwnEntry(a) ==
    IF task_result[a].kind = "exception"
    THEN "Error: fault in " \o a
    ELSE "report of " \o a

\* the role entries of the value run() returned
RoleKeys == DOMAIN ret.value \cap ResultKeys

\* run() returned the top-level error object
ErrorObject == DOMAIN ret.value = {"error", "stock_code"}

\* run() returned a role mapping
RoleMapping == "error" \notin DOMAIN ret.value /\ RoleKeys # {}

\* the selector raised during run's fetch: it was called and cached nothing
SelectorRaised ==
    pc \notin {"idle", "fetch"} /\ ncalls = 1 /\ provider_instance = None

\* x occurs in the sequence s
InSeq(x, s) == \E i \in 1..Len(s) : s[i] = x

-----------------------------------------------------------------------------
(* Properties of run(): checked under Spec *)

\* C1: in every reachable state of run(), under every interleaving of the
\* specialist tasks, at most 3 specialists have entered agent.run and not
\* yet left it, however many are registered.
C1_AtMostThreeRunning == Cardinality(Running) <= 3

\* C1 witness: six registered, three inside agent.run, the others held back.
C1_Witness ==
    agents = AgentKeys /\ Cardinality(Running) = 3 /\ Cardinality(Waiting) = 3

\* C2: for any set of registered specialists, the mapping run() returns has
\* exactly one entry per dispatched specialist, under that specialist's own
\* role name and holding its own outcome, and no role entry for a specialist
\* that was not dispatched.
C2_EntryPerDispatchedSpecialist ==
    (pc = "returned" /\ ret.kind = "return" /\ "error" \notin DOMAIN ret.value)
        => /\ RoleKeys = {ResultKeyOf(a) : a \in agents}
           /\ \A a \in agents : ret.value[ResultKeyOf(a)] = OwnEntry(a)

\* C3: with all six registered and any subset of them raising in agent.run,
\* run() does not raise and returns six role entries: 'Error: <cause>' for
\* each specialist that raised, the returned value unchanged for each that
\* did not; a raise never changes or removes a sibling's entry.
C3_FailuresIsolated ==
    (pc = "returned" /\ agents = AgentKeys /\ \A a \in AgentKeys : task[a] = "done")
        => /\ ret.kind = "return"
           /\ RoleKeys = ResultKeys
           /\ Cardinality(RoleKeys) = 6
           /\ \A a \in AgentKeys : ret.value[ResultKeyOf(a)] = OwnEntry(a)

\* C3 witness: six registered, run() returned, two raised and four returned.
C3_Witness ==
    /\ pc = "returned"
    /\ agents = AgentKeys
    /\ Cardinality({a \in AgentKeys : task_result[a].kind = "exception"}) = 2
    /\ Cardinality({a \in AgentKeys : task_result[a].kind = "return"}) = 4

\* C4: the aggregation starts only after every dispatched task has settled:
\* no result entry is written while a dispatched task is waiting for a slot
\* or executing.
C4_AggregationAfterBarrier ==
    (DOMAIN results # {} \/ pc = "returned")
        => \A a \in AgentKeys : task[a] \notin {"waiting", "running"}

\* C4 witness: result entries written after six tasks settled.
C4_Witness ==
    /\ DOMAIN results # {}
    /\ agents = AgentKeys
    /\ \A a \in AgentKeys : task[a] = "done"

\* C5 as stated: when the selector raises a configuration error during the
\* fetch, run() dispatches no specialist and returns {error, stock_code}.
C5_FailedTransition ==
    SelectorRaised
        => /\ \A a \in AgentKeys : task[a] = "none"
           /\ pc = "returned" => ErrorObject

\* C5 amended: when the selector raises a configuration error during the
\* fetch, execute() turns it into a failure value ('Data provider
\* configuration error: ...') and run() goes on as for any failed fetch: it
\* seeds no context, dispatches every registered specialist and returns
\* without raising, with no 'basic_info'; what it returns is a role mapping
\* with one role entry per registered specialist when there is one, and the
\* 'No specialist agents completed successfully' object when there is none.
C5_ConfigErrorIsAFetchFailure ==
    (SelectorRaised /\ pc = "returned")
        => /\ \E m \in Modes :
                basic_info_result.error \in
                    {"Data provider configuration error: Unknown data provider: " \o m,
                     "Data provider configuration error: Could not initialize data provider: " \o m}
           /\ \A a \in agents : task[a] = "done"
           /\ \A a \in AgentKeys : memory[a] = 0
           /\ ret.kind = "return"
           /\ "basic_info" \notin DOMAIN ret.value
           /\ ret.value.stock_code = stock_code
           /\ agents # {} => /\ "error" \notin DOMAIN ret.value
                             /\ Cardinality(RoleKeys) = Cardinality(agents)
           /\ agents = {} => /\ ErrorObject
                             /\ ret.value.error = "No specialist agents completed successfully"

\* C5 witness: the selector raised, and run() returned after six specialists
\* were dispatched and settled.
C5_Witness ==
    /\ SelectorRaised
    /\ pc = "returned"
    /\ agents = AgentKeys
    /\ \A a \in AgentKeys : task[a] = "done"

\* C6: when the fetch returns a failure value, every registered specialist
\* is still dispatched and its outcome appears in the returned mapping, no
\* context message is added to any memory and the mapping has no
\* 'basic_info'; when the fetch succeeds, the returned mapping has
\* 'basic_info' equal to the fetch output.
C6_FetchFailureDoesNotAbort ==
    /\ (pc = "returned" /\ basic_info_result.error # "" /\ ret.kind = "return")
          => /\ \A a \in agents : task[a] = "done"
             /\ \A a \in agents : \E k \in RoleKeys : ret.value[k] = OwnEntry(a)
             /\ \A a \in AgentKeys : memory[a] = 0
             /\ "basic_info" \notin DOMAIN ret.value
    /\ (pc = "returned" /\ basic_info_result.error = "" /\ RoleMapping)
          => /\ "basic_info" \in DOMAIN ret.value
             /\ ret.value["basic_info"] = basic_info_result.output
             /\ ret.value["basic_info"].basic_info.symbol = stock_code

\* C6 witness: the provider returned none, and run() returned a mapping for
\* six specialists.
C6_Witness ==
    /\ pc = "returned"
    /\ basic_info_result.error = "Failed to fetch stock basic info from any provider."
    /\ agents = AgentKeys
    /\ RoleMapping

\* C7: whatever the registry, the selector's outcome and the specialists'
\* outcomes, run() never propagates a fault: it returns a role mapping that
\* includes 'stock_code', or the object {error, stock_code}.
C7_RunNeverRaises ==
    /\ ret.kind # "raise"
    /\ pc = "returned"
          => /\ ret.kind = "return"
             /\ ret.value.stock_code = stock_code
             /\ ErrorObject \/ RoleMapping

\* C7 witness: add_message raised a TypeError while the context was seeded,
\* and run() returned.
C7_Witness ==
    /\ pc = "returned"
    /\ "error" \in DOMAIN ret.value
    /\ ret.value.error = "message is not a Message"

\* C8: run(code) with no registered specialist returns exactly
\* {error: "No specialist agents completed successfully", stock_code: code},
\* whether or not the fetch succeeded.
C8_NoSpecialists ==
    (pc = "returned" /\ agents = {})
        => /\ ret.kind = "return"
           /\ ErrorObject
           /\ ret.value.error = "No specialist agents completed successfully"
           /\ ret.value.stock_code = stock_code

\* C8 witness: no specialist registered, the fetch succeeded, run() returned.
C8_Witness ==
    pc = "returned" /\ agents = {} /\ basic_info_result.error = ""

-----------------------------------------------------------------------------
(* Properties of the selector: checked under SpecSelector *)

\* C9: once the selector has returned a provider, every later call returns
\* that identical instance and probes nothing (no constructor, no remote
\* call), whatever the mode, credentials and health at that call; the cached
\* value never changes once set.
C9_CachedInstanceIsFinal ==
    (call.outcome # "none" /\ call.before # None)
        => /\ call.outcome = "return"
           /\ call.value = call.before
           /\ provider_instance = call.before
           /\ call.ctor = <<>>
           /\ call.remote = <<>>

\* C9 witness: a tushare instance is cached, and a later call is made with an
\* unrecognized mode, no credentials and every backend failing.
C9_Witness ==
    /\ call.outcome # "none"
    /\ call.before # None
    /\ call.before.backend = "tushare"
    /\ call.cfg.provider = "wind"
    /\ call.cfg.tushare_token = ""
    /\ ~call.health.pro_api /\ ~call.health.trade_cal /\ ~call.health.rq_init

\* backend1 is available to the last call
TushareAvailable ==
    /\ call.cfg.tushare_token \notin {"", "invalid_token"}
    /\ call.health.pro_api
    /\ call.health.trade_cal

\* backend2 is available to the last call
RQDataAvailable ==
    /\ call.cfg.rqdata_username # ""
    /\ call.cfg.rqdata_password # ""
    /\ call.health.rq_init

\* C10: with an empty cache and mode 'auto' the selector returns the first
\* available backend in the order tushare, rqdata, akshare; a lower-priority
\* backend is never constructed when a higher-priority one is available, and
\* an exception while probing tushare or rqdata never makes the call fail.
C10_AutoPriority ==
    (call.outcome # "none" /\ call.before = None /\ call.cfg.provider = "auto")
        => /\ call.outcome = "return"
           /\ call.value.backend =
                 IF TushareAvailable THEN "tushare"
                 ELSE IF RQDataAvailable THEN "rqdata" ELSE "akshare"
           /\ call.value.serial = ncalls
           /\ provider_instance = call.value
           /\ TushareAvailable =>
                 ~InSeq("rqdata", call.ctor) /\ ~InSeq("akshare", call.ctor)
           /\ RQDataAvailable => ~InSeq("akshare", call.ctor)

\* C10 witness: tushare's probe call raises, rqdata is configured and
\* healthy: the call returns rqdata.
C10_Witness ==
    /\ call.outcome = "return"
    /\ call.before = None
    /\ call.cfg.provider = "auto"
    /\ call.cfg.tushare_token = "tk"
    /\ call.health.pro_api /\ ~call.health.trade_cal
    /\ RQDataAvailable
    /\ call.value.backend = "rqdata"

\* the named backend is available to the last call
NamedAvailable ==
    CASE call.cfg.provider = "tushare" -> TushareAvailable
      [] call.cfg.provider = "rqdata"  -> RQDataAvailable
      [] OTHER                         -> TRUE

\* the remote calls a backend's probe makes
RemoteOf(b) ==
    CASE b = "tushare" -> {"trade_cal"}
      [] b = "rqdata"  -> {"rqdatac.init"}
      [] OTHER         -> {}

\* C11: with an empty cache and an explicit mode the selector probes only
\* the named backend and never constructs or contacts another; if the named
\* backend is unavailable the call fails with a configuration error instead
\* of falling back, even when another backend is healthy.
C11_ExplicitModeNoFallback ==
    (call.outcome # "none" /\ call.before = None
        /\ call.cfg.provider \in {"tushare", "rqdata", "akshare"})
        => /\ \A i \in 1..Len(call.ctor) : call.ctor[i] = call.cfg.provider
           /\ \A i \in 1..Len(call.remote) :
                  call.remote[i] \in RemoteOf(call.cfg.provider)
           /\ NamedAvailable =>
                  /\ call.outcome = "return"
                  /\ call.value = Instance(call.cfg.provider, ncalls)
                  /\ provider_instance = call.value
           /\ ~NamedAvailable =>
                  /\ call.outcome = "RuntimeError"
                  /\ provider_instance = None

\* C11 witness: mode tushare with the placeholder token while rqdata is
\* configured and healthy: the call fails.
C11_Witness ==
    /\ call.outcome = "RuntimeError"
    /\ call.before = None
    /\ call.cfg.provider = "tushare"
    /\ call.cfg.tushare_token = "invalid_token"
    /\ RQDataAvailable

\* C12: for every supported mode and every combination of credentials and
\* health, a selector call either returns a provider instance of one of the
\* three backends or fails with a configuration error; it never returns
\* none.
C12_ProviderOrError ==
    (call.outcome # "none" /\ call.cfg.provider \in {"auto", "tushare", "rqdata", "akshare"})
        => \/ /\ call.outcome = "return"
              /\ call.value # None
              /\ call.value.backend \in Backends
           \/ /\ call.outcome = "RuntimeError"
              /\ call.before = None
              /\ provider_instance = None

\* C12 witness: mode rqdata, credentials set, rqdatac.init raises: the call
\* fails with the configuration error.
C12_Witness ==
    /\ call.outcome = "RuntimeError"
    /\ call.cfg.provider = "rqdata"
    /\ call.cfg.rqdata_username = "user" /\ call.cfg.rqdata_password = "pw"
    /\ ~call.health.rq_init

\* C13: with an empty cache, a call whose mode is not one of auto, tushare,
\* rqdata, akshare fails with a validation error before any probe (no
\* constructor call, no remote call) and leaves the cache empty.
C13_UnknownModeRejected ==
    (call.outcome # "none" /\ call.before = None
        /\ call.cfg.provider \notin {"auto", "tushare", "rqdata", "akshare"})
        => /\ call.outcome = "ValueError"
           /\ call.ctor = <<>>
           /\ call.remote = <<>>
           /\ provider_instance = None

\* C13 witness: mode wind with every credential set and every backend
\* healthy.
C13_Witness ==
    /\ call.outcome = "ValueError"
    /\ call.before = None
    /\ call.cfg.provider = "wind"
    /\ call.cfg.tushare_token = "tk"
    /\ call.cfg.rqdata_username = "user" /\ call.cfg.rqdata_password = "pw"
    /\ call.health.pro_api /\ call.health.trade_cal /\ call.health.rq_init

-----------------------------------------------------------------------------
(* Properties of the providers: checked under SpecProvider *)

\* the canonical codes of the request, as the operation reads them
RequestCodes ==
    IF request.method = "get_real_time_quotes"
    THEN AsList(request.stock_codes)
    ELSE <<request.stock_code>>

\* the exchange the leading digit stands for
Exchange(c) ==
    CASE c[1] = "6"                          -> "Shanghai"
      [] c[1] \in {"0", "3"}                 -> "Shenzhen"
      [] c[1] \in {"8", "4"}                 -> "Beijing"
      [] c[1] \in {"1", "2", "5", "7", "9"}  -> "Shanghai"

TsSuffix(x) ==
    CASE x = "Shanghai" -> <<".", "S", "H">>
      [] x = "Shenzhen" -> <<".", "S", "Z">>
      [] x = "Beijing"  -> <<".", "B", "J">>

RqSuffix(x) ==
    CASE x = "Shanghai" -> <<".", "X", "S", "H", "G">>
      [] x = "Shenzhen" -> <<".", "X", "S", "H", "E">>
      [] x = "Beijing"  -> <<".", "X", "S", "E", "S">>

TsCode(c) == c \o TsSuffix(Exchange(c))
RqCode(c) == c \o RqSuffix(Exchange(c))

\* the number of '.' in a string
Dots(s) == Cardinality({i \in 1..Len(s) : s[i] = "."})

SetOf(xs) == {xs[i] : i \in 1..Len(xs)}

\* the characters of s before the first ','
RECURSIVE BeforeComma(_)
BeforeComma(s) ==
    IF s = <<>> \/ Head(s) = ","
    THEN <<>>
    ELSE <<Head(s)>> \o BeforeComma(Tail(s))

\* the strings a comma-joined string was made of
RECURSIVE SplitComma(_)
SplitComma(s) ==
    IF s = <<>> THEN <<>>
    ELSE LET first == BeforeComma(s) IN
         IF Len(first) = Len(s)
         THEN <<first>>
         ELSE <<first>> \o SplitComma(SubSeq(s, Len(first) + 2, Len(s)))

\* the codes handed to the backend by the i-th remote call of the operation
PassedCodes(i) ==
    IF request.method = "get_real_time_quotes"
    THEN IF request.backend = "rqdata"
         THEN fetched.calls[i].arg
         ELSE SplitComma(fetched.calls[i].arg)
    ELSE <<fetched.calls[i].arg>>

\* C14: the tushare and rqdata translators append exactly one suffix chosen
\* by the leading digit (6 Shanghai; 0, 3 Shenzhen; 8, 4 Beijing; 1, 2, 5,
\* 7, 9 Shanghai) and leave the numeric part unchanged, so that cutting the
\* translated code at its first '.' gives the canonical code back: the keys
\* of the real-time-quote map of these two providers are the canonical codes
\* that were asked.
C14_TranslatorsByLeadingDigit ==
    /\ \A i \in 1..Len(RequestCodes) :
         LET c == RequestCodes[i] IN
         /\ convert_to_ts_code(c) = TsCode(c)
         /\ convert_to_rq_code(c) = RqCode(c)
         /\ Dots(convert_to_ts_code(c)) = 1
         /\ Dots(convert_to_rq_code(c)) = 1
         /\ SplitDotFirst(convert_to_ts_code(c)) = c
         /\ SplitDotFirst(convert_to_rq_code(c)) = c
    /\ (/\ fetched.outcome # "none"
        /\ request.backend \in {"tushare", "rqdata"}
        /\ request.method = "get_real_time_quotes"
        /\ request.answers[1] = "data"
        /\ RequestCodes # <<>>)
           => fetched.value = [kind |-> "dict", keys |-> SetOf(RequestCodes)]

\* C14 witness: tushare quotes of a code with the fallback digit 9 and one
\* with the Beijing digit 4: "91.SH,4.BJ" is asked, the keys are "91" and "4".
C14_Witness ==
    /\ fetched.outcome = "return"
    /\ request.backend = "tushare"
    /\ request.method = "get_real_time_quotes"
    /\ request.stock_codes = CodeList(<<<<"9", "1">>, <<"4">>>>)
    /\ fetched.calls[1].arg = <<"9", "1", ".", "S", "H", ",", "4", ".", "B", "J">>
    /\ fetched.value.kind = "dict"
    /\ fetched.value.keys = {<<"9", "1">>, <<"4">>}

\* C15 as amended: the tushare and rqdata providers hand every remote call
\* the translated, suffixed codes, in every operation; the akshare provider
\* has no translator and hands its remote calls the bare canonical codes.
C15_TranslatedExceptAkshare ==
    fetched.outcome # "none"
        => /\ Len(fetched.calls) >= 1
           /\ \A i \in 1..Len(fetched.calls) :
                PassedCodes(i) =
                    CASE request.backend = "tushare" ->
                             [j \in 1..Len(RequestCodes) |-> TsCode(RequestCodes[j])]
                      [] request.backend = "rqdata" ->
                             [j \in 1..Len(RequestCodes) |-> RqCode(RequestCodes[j])]
                      [] request.backend = "akshare" -> RequestCodes

\* C15 as stated: every provider, akshare included, hands its remote calls
\* suffixed codes and never a bare canonical code.
C15_AlwaysSuffixed ==
    fetched.outcome # "none"
        => \A i \in 1..Len(fetched.calls) :
             \A j \in 1..Len(PassedCodes(i)) :
                /\ Dots(PassedCodes(i)[j]) = 1
                /\ PassedCodes(i)[j] \notin SetOf(RequestCodes)

\* C15 witness: the daily bars of "30" asked from rqdata: get_price is
\* given "30.XSHE".
C15_Witness ==
    /\ fetched.outcome = "return"
    /\ request.backend = "rqdata"
    /\ request.method = "get_daily_market_data"
    /\ request.stock_code = <<"3", "0">>
    /\ fetched.calls[1].arg = <<"3", "0", ".", "X", "S", "H", "E">>

\* a remote call of the operation failed
RemoteFailed == \E i \in 1..Len(request.answers) : request.answers[i] = "raise"

\* the backend answered the operation's first remote call with no data
NoData == request.answers[1] = "empty"

\* C16 as amended: in every provider and every operation a failing remote
\* call never propagates, the operation returns none. That is also what
\* basic info and real-time quotes return when the backend answers with no
\* data; daily bars return the backend's empty table in that case, which is
\* not none.
C16_FailureSwallowed ==
    fetched.outcome # "none"
        => /\ fetched.outcome = "return"
           /\ RemoteFailed => fetched.value = NoneValue
           /\ (NoData /\ request.method # "get_daily_market_data")
                 => fetched.value = NoneValue
           /\ (NoData /\ request.method = "get_daily_market_data")
                 => fetched.value = [kind |-> "DataFrame", empty |-> TRUE]

\* C16 as stated: a failing remote call gives none, and so does an answer
\* with no data, in every operation.
C16_FailureSameAsNoData ==
    fetched.outcome # "none"
        => /\ fetched.outcome = "return"
           /\ RemoteFailed => fetched.value = NoneValue
           /\ NoData => fetched.value = NoneValue

\* C16 witness: tushare basic info whose second remote call, daily_basic,
\* raises after stock_basic answered with data: none is returned.
C16_Witness ==
    /\ fetched.outcome = "return"
    /\ request.backend = "tushare"
    /\ request.method = "get_stock_basic_info"
    /\ request.answers = <<"data", "raise">>
    /\ Len(fetched.calls) = 2
    /\ fetched.value = NoneValue

-----------------------------------------------------------------------------
(* Properties of run(): the seeding and the dispatch, checked under Spec *)

\* C17: within one call of run, agent.run is entered at most once for each
\* registered specialist and never for an unregistered one, whatever the
\* outcome of the fetch and of the other specialists: a specialist has been
\* entered exactly when its task runs or is done.
C17_RunStartedAtMostOnce ==
    \A a \in AgentKeys :
        /\ started[a] <= 1
        /\ a \notin agents => started[a] = 0
        /\ started[a] = 1 <=> task[a] \in {"running", "done"}

\* C17 witness: six specialists, the fetch failed, some specialists raised
\* and some returned, run is over: each was entered once.
C17_Witness ==
    /\ pc = "returned"
    /\ agents = AgentKeys
    /\ FetchFailed(basic_info_result)
    /\ \A a \in AgentKeys : started[a] = 1
    /\ \E a \in AgentKeys : task_result[a].kind = "exception"
    /\ \E a \in AgentKeys : task_result[a].kind = "return"

-----------------------------------------------------------------------------
(* Properties of cleanup(): checked under SpecCleanup *)

\* C19: cleanup() starts the cleanup of every registered specialist that
\* has a `cleanup` attribute, each exactly once and all of them before any
\* has ended, starts none for the others, and releases the environment's own
\* resources only afterwards: the own release is never reached before every
\* specialist cleanup has ended, and cleanup() does not return without it.
C19_OwnReleaseAfterCleanups ==
    /\ cleanup_pc # "idle" =>
          \A a \in AgentKeys :
             cleanup_started[a] = IF a \in agents /\ a \in hasCleanup THEN 1 ELSE 0
    /\ (cleanup_pc = "super" \/ released) =>
          \A a \in hasCleanup : cleanup_task[a] = "done"
    /\ cleanup_pc = "returned" => released
    /\ released => cleanup_pc = "returned"

\* C19 witness: six specialists, five with a cleanup, all five ended, the
\* own resources released.
C19_Witness ==
    /\ released
    /\ agents = AgentKeys
    /\ hasCleanup = AgentKeys \ {"chip_analysis_agent"}
    /\ \A a \in hasCleanup : cleanup_started[a] = 1 /\ cleanup_task[a] = "done"
    /\ cleanup_started["chip_analysis_agent"] = 0

-----------------------------------------------------------------------------
(* Termination of run(): checked under SpecLive *)

\* C20: a specialist's task gives its slot back when agent.run ends, by
\* return and by raise alike, so the free slots and the running specialists
\* always add up to the semaphore's value; hence, if every agent.run ends
\* and the event loop is fair, every dispatched task that waits for a slot
\* eventually runs, and a call of run eventually returns.
C20_EveryTaskRunsAndRunReturns ==
    /\ [](pc = "gather" => sem + Cardinality(Running) = SemaphoreValue)
    /\ \A a \in AgentKeys : (task[a] = "waiting") ~> (task[a] = "running")
    /\ (pc # "idle") ~> (pc = "returned")

\* C20 witness: six specialists of which sentiment, risk control and hot
\* money raised; the three others were admitted and returned, every slot is
\* free again and run has returned.
C20_Witness ==
    /\ pc = "returned"
    /\ agents = AgentKeys
    /\ sem = SemaphoreValue
    /\ \A a \in {"sentiment_agent", "risk_control_agent", "hot_money_agent"} :
          task_result[a] = Raised(a)
    /\ \A a \in {"technical_analysis_agent", "chip_analysis_agent",
                 "big_deal_analysis_agent"} :
          task_result[a] = Returned(a) /\ started[a] = 1

-----------------------------------------------------------------------------
(* The cache after a failed call: checked under SpecSelector *)

\* the last call ended in an exception
CallFailed == call.outcome \in {"ValueError", "RuntimeError"}

\* the probe of the backend of the cached provider accepted it at the last
\* call
ProbeAccepted ==
    CASE provider_instance.backend = "tushare" -> TushareAvailable
      [] provider_instance.backend = "rqdata"  -> RQDataAvailable
      [] provider_instance.backend = "akshare" -> TRUE
      [] OTHER                                 -> FALSE

\* C21: a selector call that fails leaves the cache empty; the call after
\* a failed one finds the cache empty, probes again and returns a provider
\* when its mode is supported and the named backend is available by then;
\* and the cache is only ever set, by a call that found it empty, to the
\* provider that call constructed and whose probe accepted it.
C21_FailedCallLeavesCacheEmpty ==
    /\ [](CallFailed => call.before = None /\ provider_instance = None)
    /\ [](provider_instance # None =>
             IF call.before = None
             THEN /\ call.outcome = "return"
                  /\ provider_instance = call.value
                  /\ provider_instance = Instance(call.ctor[Len(call.ctor)], ncalls)
                  /\ ProbeAccepted
             ELSE provider_instance = call.before)
    /\ [][(CallFailed /\ ncalls' = ncalls + 1)
             => /\ call'.before = None
                /\ (call'.cfg.provider \in {"auto", "tushare", "rqdata", "akshare"}
                        /\ NamedAvailable')
                      => /\ call'.outcome = "return"
                         /\ call'.ctor # <<>>
                         /\ provider_instance' = call'.value
                         /\ provider_instance' # None
         ]_vars

\* C21 witness: the second call of the process found the cache empty, so
\* the first one failed; it ran in mode tushare with a usable token and a
\* healthy backend and cached the instance it constructed.
C21_Witness ==
    /\ ncalls = 2
    /\ call.before = None
    /\ call.cfg.provider = "tushare"
    /\ call.outcome = "return"
    /\ call.ctor = <<"tushare">>
    /\ provider_instance = Instance("tushare", 2)

-----------------------------------------------------------------------------
(* The stored results: checked under SpecAgain *)

\* C22: the environment's `results` is written only by the step in which
\* run returns a role mapping, and then holds the returned value, the
\* mapping with 'stock_code' added; a run that returns the top-level error
\* object, for zero entries or for a fault it caught, leaves `results` as it
\* was: the aggregate of an earlier run, or the initial empty mapping.
C22_ResultsWrittenOnlyOnSuccess ==
    /\ [][env_results' # env_results
             => /\ pc = "gather" /\ pc' = "returned"
                /\ RoleMapping'
                /\ env_results' = ret'.value
         ]_vars
    /\ [][(pc # "returned" /\ pc' = "returned" /\ ErrorObject')
             => env_results' = env_results
         ]_vars
    /\ []((pc = "returned" /\ RoleMapping)
             => /\ env_results = ret.value
                /\ "stock_code" \in DOMAIN env_results
                /\ env_results["stock_code"] = stock_code
                /\ \A k \in RoleKeys : env_results[k] = results[k])
    /\ []((pc = "returned" /\ ErrorObject)
             => env_results \in PreviousResults(agents))
    /\ [](pc = "returned" => (RoleMapping \/ ErrorObject))

\* C22 witness: six specialists, an earlier aggregate stored; this run's
\* seeding raised, run returned the error object and the earlier aggregate
\* is still stored.
C22_Witness ==
    /\ pc = "returned"
    /\ agents = AgentKeys
    /\ ErrorObject
    /\ ret.value["error"] = "message rejected"
    /\ env_results # EmptyDict
    /\ env_results \in PreviousResults(agents)

-----------------------------------------------------------------------------
(* A failing cleanup: checked under SpecCleanup *)

\* some specialist's cleanup has raised
CleanupFailed == \E a \in AgentKeys : cleanup_task[a] = "failed"

\* C23: once a specialist's cleanup has raised, the environment's own
\* release is never performed and cleanup() can only end by raising to its
\* caller, which it does only for such a fault; the step in which it raises
\* leaves the cleanups of the other specialists as they were, so those
\* still running stay running: no started cleanup is ever cancelled, and
\* each ends by returning or raising on its own.
C23_CleanupFailurePropagates ==
    /\ [](CleanupFailed => (~released /\ cleanup_pc \in {"gather", "raised"}))
    /\ [](cleanup_pc = "raised" => (CleanupFailed /\ ~released))
    /\ [][cleanup_pc = "raised" => cleanup_pc' = "raised"]_vars
    /\ [][\A a \in AgentKeys :
             /\ cleanup_task[a] = "running"
                  => cleanup_task'[a] \in {"running", "done", "failed"}
             /\ (cleanup_pc = "gather" /\ cleanup_pc' = "raised")
                  => cleanup_task'[a] = cleanup_task[a]
         ]_vars

\* C23 witness: six specialists with a cleanup; that of sentiment_agent
\* raised and cleanup() has raised to its caller without the own release,
\* while the cleanup of risk_control_agent is still running and the four
\* others have ended.
C23_Witness ==
    /\ cleanup_pc = "raised"
    /\ ~released
    /\ hasCleanup = AgentKeys
    /\ cleanup_task["sentiment_agent"] = "failed"
    /\ cleanup_task["risk_control_agent"] = "running"
    /\ \A a \in AgentKeys \ {"sentiment_agent", "risk_control_agent"} :
          cleanup_task[a] = "done"

=============================================================================
